---------------------------- MODULE Spec2Model ----------------------------
(***************************************************************************)
(* Hashly: client-side key-value lookup over hash-sharded chunk files.     *)
(* Model of src/app.js (class HashlyLookup) as a state machine.  JavaScript*)
(* strings are TLA+ strings; a JavaScript Map is a sequence of <<key,      *)
(* value>> pairs in insertion order; each async function is cut into one   *)
(* action per suspend point (await).                                       *)
(***************************************************************************)
EXTENDS Integers, Sequences, FiniteSets, TLC

(***************************************************************************)
(* Strings and characters                                                  *)
(***************************************************************************)

Digits == "0123456789"
UpperChars == "ABCDEFGHIJKLMNOPQRSTUVWXYZ"
LowerChars == "abcdefghijklmnopqrstuvwxyz"

CharAt(s, i) == SubSeq(s, i, i)

CharsOf(s) == {CharAt(s, j) : j \in 1..Len(s)}

PosIn(s, c) == CHOOSE j \in 1..Len(s) : CharAt(s, j) = c

\* UTF-16 code unit of a one-character string, for the characters the model uses.
CodeOf ==
    [c \in CharsOf(Digits) \cup CharsOf(UpperChars) \cup CharsOf(LowerChars)
            \cup {" ", ":", "_", ".", "-", "\n", "\t", "\r"} |->
        IF c \in CharsOf(Digits) THEN 47 + PosIn(Digits, c)
        ELSE IF c \in CharsOf(UpperChars) THEN 64 + PosIn(UpperChars, c)
        ELSE IF c \in CharsOf(LowerChars) THEN 96 + PosIn(LowerChars, c)
        ELSE IF c = " " THEN 32
        ELSE IF c = ":" THEN 58
        ELSE IF c = "_" THEN 95
        ELSE IF c = "." THEN 46
        ELSE IF c = "-" THEN 45
        ELSE IF c = "\n" THEN 10
        ELSE IF c = "\t" THEN 9
        ELSE 13]

\* String.prototype.charCodeAt, 1-based here.
charCodeAt(s, i) == CodeOf[CharAt(s, i)]

LowerOfChar(c) ==
    IF c \in CharsOf(UpperChars) THEN CharAt(LowerChars, PosIn(UpperChars, c)) ELSE c

RECURSIVE toLowerCase(_)
\* String.prototype.toLowerCase on ASCII strings.
toLowerCase(s) ==
    IF Len(s) = 0 THEN ""
    ELSE LowerOfChar(CharAt(s, 1)) \o toLowerCase(SubSeq(s, 2, Len(s)))

\* The white space String.prototype.trim strips, and that /\s/ would match.
IsSpace(c) == c \in {" ", "\t", "\n", "\r"}

RECURSIVE TrimStart(_)
TrimStart(s) ==
    IF Len(s) > 0 /\ IsSpace(CharAt(s, 1)) THEN TrimStart(SubSeq(s, 2, Len(s))) ELSE s

RECURSIVE TrimEnd(_)
TrimEnd(s) ==
    IF Len(s) > 0 /\ IsSpace(CharAt(s, Len(s))) THEN TrimEnd(SubSeq(s, 1, Len(s) - 1)) ELSE s

\* String.prototype.trim.
trim(s) == TrimEnd(TrimStart(s))

RECURSIVE IndexFrom(_, _, _)
IndexFrom(s, c, i) ==
    IF i > Len(s) THEN 0
    ELSE IF CharAt(s, i) = c THEN i
    ELSE IndexFrom(s, c, i + 1)

\* String.prototype.indexOf for a one-character needle: the 1-based position of
\* its first occurrence, 0 where JavaScript gives -1.
indexOf(s, c) == IndexFrom(s, c, 1)

RECURSIVE split(_, _)
\* String.prototype.split on a one-character separator: always at least one piece.
split(s, sep) ==
    LET i == indexOf(s, sep) IN
    IF i = 0 THEN <<s>>
    ELSE <<SubSeq(s, 1, i - 1)>> \o split(SubSeq(s, i + 1, Len(s)), sep)

RECURSIVE padStart(_, _, _)
\* String.prototype.padStart with a one-character filler.
padStart(s, n, fill) == IF Len(s) >= n THEN s ELSE padStart(fill \o s, n, fill)

(***************************************************************************)
(* 32-bit integer arithmetic.  An unsigned 32-bit value does not fit the   *)
(* model checker integers, so it is the pair <<hi, lo>> of its 16-bit    *)
(* halves; a signed 32-bit value (the result of ^ and Math.imul) is an     *)
(* integer in -2^31 .. 2^31-1.                                             *)
(***************************************************************************)

\* ToUint32: the bit pattern of a signed 32-bit integer read as unsigned (x >>> 0).
ToUint32(a) == <<(a \div 65536) % 65536, a % 65536>>

\* ToInt32: the bit pattern of an unsigned 32-bit value read as signed.
ToInt32(u) == (IF u[1] >= 32768 THEN u[1] - 65536 ELSE u[1]) * 65536 + u[2]

RECURSIVE BitXor(_, _)
\* Bitwise exclusive or of two non-negative integers.
BitXor(x, y) ==
    IF x = 0 THEN y
    ELSE IF y = 0 THEN x
    ELSE (((x % 2) + (y % 2)) % 2) + 2 * BitXor(x \div 2, y \div 2)

\* a ^ c for a signed 32-bit a and a UTF-16 code unit c (0..65535): only the low
\* 16 bits of a can change.
Xor32(a, c) == (a \div 65536) * 65536 + BitXor(a % 65536, c)

MulByte(u, c) ==
    LET l == u[2] * c IN <<(u[1] * c + l \div 65536) % 65536, l % 65536>>

Shl8(u) == <<(u[1] * 256 + u[2] \div 256) % 65536, (u[2] * 256) % 65536>>

AddU32(u, v) ==
    LET l == u[2] + v[2] IN <<(u[1] + v[1] + l \div 65536) % 65536, l % 65536>>

\* Math.imul: the low 32 bits of the product, as a signed 32-bit integer.
imul(a, b) ==
    LET ua == ToUint32(a)
        ub == ToUint32(b)
        p0 == MulByte(ua, ub[2] % 256)
        p1 == Shl8(MulByte(ua, ub[2] \div 256))
        p2 == Shl8(Shl8(MulByte(ua, ub[1] % 256)))
        p3 == Shl8(Shl8(Shl8(MulByte(ua, ub[1] \div 256))))
    IN  ToInt32(AddU32(AddU32(p0, p1), AddU32(p2, p3)))

\* The % of a non-negative 32-bit value by an integer n: NaN when n is 0, else
\* the remainder, whose sign is the dividend's (here never negative).
NaN == -1

JsMod(u, n) ==
    IF n = 0 THEN NaN
    ELSE LET m == IF n < 0 THEN -n ELSE n
         IN  ((u[1] % m) * (65536 % m) + u[2]) % m

\* x + 1 in JavaScript numbers: NaN + 1 is NaN.
JsPlusOne(x) == IF x = NaN THEN NaN ELSE x + 1

\* String(x) of a number.
NumToString(x) == IF x = NaN THEN "NaN" ELSE ToString(x)

(***************************************************************************)
(* HashlyLookup: pure methods                                              *)
(***************************************************************************)

\* 0x811c9dc5 as <<0x811c, 0x9dc5>>.
FnvOffsetBasis == <<33052, 40389>>

fnv_32_prime == 16777619

RECURSIVE FnvLoop_fnv1(_, _)
\* A variant of the loop with a plausible bug: FNV-1, which multiplies before
\* it xors.
FnvLoop_fnv1(str, n) ==
    IF n = 0 THEN ToInt32(FnvOffsetBasis)
    ELSE LET hval == FnvLoop_fnv1(str, n - 1)
         IN  CASE hval \in Int ->
                  Xor32(imul(hval, fnv_32_prime), charCodeAt(str, n))

RECURSIVE FnvLoop(_, _)
\* hval after the loop's first n iterations.
FnvLoop(str, n) ==
    IF n = 0 THEN ToInt32(FnvOffsetBasis)
    ELSE LET hval == FnvLoop(str, n - 1)
         IN  CASE hval \in Int ->   \* hval is evaluated before the step uses it
                  imul(Xor32(hval, charCodeAt(str, n)), fnv_32_prime)

\* fnv1a_32(str): the unsigned 32-bit FNV-1a hash, as <<hi, lo>>.
fnv1a_32(str) == ToUint32(FnvLoop(str, Len(str)))

HexChars == "0123456789abcdefABCDEF"

IsHexChar(c) == \E j \in 1..Len(HexChars) : CharAt(HexChars, j) = c

KeyLength == 32

\* A variant of validateKey with a plausible bug: the pattern is not anchored,
\* /[0-9a-f]{32}/i, and matches any string that holds 32 hex characters in a row.
validateKey_unanchored(key) ==
    \E s \in 0..(Len(key) - KeyLength) :
        \A i \in 1..KeyLength : IsHexChar(CharAt(key, s + i))

\* A variant of validateKey with a plausible bug: the key is trimmed before it
\* is tested.
validateKey_trimFirst(key) ==
    /\ Len(trim(key)) = KeyLength
    /\ \A i \in 1..Len(trim(key)) : IsHexChar(CharAt(trim(key), i))

\* validateKey(key): /^[0-9a-f]{32}$/i.test(key).
validateKey(key) ==
    /\ Len(key) = KeyLength
    /\ \A i \in 1..Len(key) : IsHexChar(CharAt(key, i))

\* normalizeKey(key): key.toLowerCase().trim().
normalizeKey(key) == trim(toLowerCase(key))

\* The absent value null, and a present string v, of a nullable string.
Null == <<>>
Some(v) == <<v>>

RECURSIVE ScanLines_splitValue(_, _, _)
\* A variant of the scan with a plausible bug: the value is line.split(':')[1],
\* which ends at the second colon.
ScanLines_splitValue(lines, i, targetKey) ==
    IF i > Len(lines) THEN Null
    ELSE LET line == lines[i]
             colonIndex == indexOf(line, ":")
         IN  IF Len(trim(line)) = 0 THEN ScanLines_splitValue(lines, i + 1, targetKey)
             ELSE IF colonIndex = 0 THEN ScanLines_splitValue(lines, i + 1, targetKey)
             ELSE IF trim(SubSeq(line, 1, colonIndex - 1)) = targetKey
                  THEN Some(trim(split(line, ":")[2]))
                  ELSE ScanLines_splitValue(lines, i + 1, targetKey)

RECURSIVE ScanLines(_, _, _)
\* The loop of scanChunk over lines[i..].
ScanLines(lines, i, targetKey) ==
    IF i > Len(lines) THEN Null
    ELSE LET line == lines[i]
             colonIndex == indexOf(line, ":")
         IN  IF Len(trim(line)) = 0 THEN ScanLines(lines, i + 1, targetKey)
             ELSE IF colonIndex = 0 THEN ScanLines(lines, i + 1, targetKey)
             ELSE IF trim(SubSeq(line, 1, colonIndex - 1)) = targetKey
                  THEN Some(trim(SubSeq(line, colonIndex + 1, Len(line))))
                  ELSE ScanLines(lines, i + 1, targetKey)

\* scanChunk(chunkText, targetKey).
scanChunk(chunkText, targetKey) == ScanLines(split(chunkText, "\n"), 1, targetKey)

(***************************************************************************)
(* The environment: the static site that serves meta.json and the chunk    *)
(* files, and the keys the callers look up.                                *)
(***************************************************************************)

maxCacheSize == 10

DefaultTotalChunks == 2860
DefaultTotalKeys == 14300247

\* meta.json as the server may serve it: the data set's own descriptor, or a
\* descriptor of an empty data set.
MetaDescriptors ==
    { [total_chunks |-> 2860, total_keys |-> 11],
      [total_chunks |-> 0, total_keys |-> 0] }

Zeros31 == "0000000000000000000000000000000"

\* The keys of the workload, grouped by the shard they route to under 2860
\* chunks; group 0 holds the malformed keys.  Shards are first requested in
\* group order.
KeyGroups ==
    << {Zeros31 \o "0", "000000000000000000000000000006d2"},
       {Zeros31 \o "1"}, {Zeros31 \o "2"}, {Zeros31 \o "3"}, {Zeros31 \o "4"},
       {Zeros31 \o "5"}, {Zeros31 \o "6"}, {Zeros31 \o "7"}, {Zeros31 \o "8"},
       {Zeros31 \o "9"}, {Zeros31 \o "a", Zeros31 \o "A"} >>

MalformedKeys == {Zeros31 \o "g", " " \o Zeros31 \o "0"}

Keys == MalformedKeys \cup UNION {KeyGroups[g] : g \in 1..Len(KeyGroups)}

GroupOf(key) ==
    IF key \in MalformedKeys THEN 0
    ELSE CHOOSE g \in 1..Len(KeyGroups) : key \in KeyGroups[g]

\* The chunk files on the server, by URL.
ChunkFiles ==
    [url \in { "chunks/chunk_00510.txt", "chunks/chunk_02511.txt", "chunks/chunk_01652.txt",
               "chunks/chunk_00793.txt", "chunks/chunk_02794.txt", "chunks/chunk_01935.txt",
               "chunks/chunk_01076.txt", "chunks/chunk_00217.txt", "chunks/chunk_01662.txt",
               "chunks/chunk_00803.txt", "chunks/chunk_01319.txt" } |->
        IF url = "chunks/chunk_00510.txt" THEN Zeros31 \o "0:alpha\n"
        ELSE IF url = "chunks/chunk_02511.txt" THEN Zeros31 \o "1:part1:part2\n"
        ELSE IF url = "chunks/chunk_01652.txt"
             THEN "\n  \nno colon here\n " \o Zeros31 \o "2 :  beta \n"
        ELSE IF url = "chunks/chunk_01319.txt"
             THEN Zeros31 \o "a:gamma\n" \o Zeros31 \o "a:delta\n"
        ELSE "ffffffffffffffffffffffffffffffff:other\n"]

\* What onProgress may be: absent, a callback that returns normally, or one
\* that throws (an Error, or the value null) when called for the at-th phase.
NoCallback == [kind |-> "none", at |-> 0]
Observer == [kind |-> "observer", at |-> 0]
Callbacks ==
    {NoCallback, Observer}
        \cup [kind : {"throwsError", "throwsNull"}, at : 1..4]

\* Bounds of the exploration: the lookups of a run of Spec; in a run of
\* FillSpec, the lookups of a key group already requested, and the lookups
\* started while another is in flight; the chunk counts LocateSpec tries; the
\* length of the strings HashSpec builds from HashAlphabet; the lines of a
\* chunk text ScanSpec builds from ScanLineForms; the search requests of a run
\* of UiSpec; the characters ValidateSpec appends to a 29-character middle;
\* the calls of load() in a run of MphfSpec.
MaxLookups == 2
MaxRepeats == 1
MaxOverlaps == 1
MaxChunks == 16
MaxHashLen == 3
MaxLines == 2
MaxSearches == 3
MaxTailLen == 3
MaxLoads == 2

Callers == {"c1", "c2"}

(***************************************************************************)
(* State                                                                   *)
(***************************************************************************)

VARIABLES
    meta,          \* this.meta: Null or Some(descriptor)
    initialized,   \* this.initialized
    cache,         \* this.cache: the Map's <<key, value>> entries in insertion order
    initPc,        \* where init() is: "new", "awaitFetch", "awaitJson", "done"
    lk,            \* per caller: its lookup() invocation
    started,       \* lookups started so far
    fresh,         \* key groups requested so far
    overlaps,      \* lookups started while another was in flight
    fetches,       \* calls of fetch(url) for a chunk so far
    known,         \* per normalized key: Some(value) once a lookup of it has returned
                   \* value and while its shard has stayed in the cache, else Null
    probe,         \* the last call of a pure method made by the specifications
                   \* that exercise them: Null, or Some(call)
    served,        \* how the server answered for meta.json: "none", "status",
                   \* "reject", "unparseable", or "parsed" and the descriptor
    \* UIController
    isSearching,   \* this.isSearching
    hideTimeout,   \* whether this.hideTimeout holds a pending timer
    dom,           \* what the page shows: which containers are not hidden, their texts
    searching,     \* the lookups handleSearch is suspended on (by caller slot)
    requests,      \* calls of handleSearch so far
    \* MPHFEvaluator
    lookupTable,   \* this.lookupTable: Null or Some(mapping)
    loaded,        \* this.loaded
    debugMode,     \* this.debugMode
    loadPc,        \* where load() is: "new", "awaitFetch", "awaitJson", "done"
    loads,         \* calls of load() that have returned
    lastLoad       \* of the last load() that returned: what it returned, and whether
                   \* it had the mapping ("debug") or not ("fallback"); "none" before

uiVars == <<isSearching, hideTimeout, dom, searching, requests>>

mphfVars == <<lookupTable, loaded, debugMode, loadPc, loads, lastLoad>>

vars == <<meta, initialized, cache, initPc, lk, started, fresh, overlaps, fetches, known, probe,
          served, uiVars, mphfVars>>

(***************************************************************************)
(* The Map this.cache                                                      *)
(***************************************************************************)

CacheKeys(c) == {c[i][1] : i \in 1..Len(c)}

\* Map.prototype.has
CacheHas(c, k) == k \in CacheKeys(c)

\* Map.prototype.get of a key the map has
CacheGet(c, k) == c[CHOOSE i \in 1..Len(c) : c[i][1] = k][2]

\* Map.prototype.delete
CacheDelete(c, k) == SelectSeq(c, LAMBDA e : e[1] # k)

\* Map.prototype.set: a new key goes last, a present key keeps its place.
CacheSet(c, k, v) ==
    IF CacheHas(c, k)
    THEN [i \in 1..Len(c) |-> IF c[i][1] = k THEN <<k, v>> ELSE c[i]]
    ELSE Append(c, <<k, v>>)

\* Variants of addToCache with a plausible bug: the size test is > instead of
\* >=; the newest entry is evicted instead of the oldest.
addToCache_evictLate(c, key, value) ==
    CacheSet(IF Len(c) > maxCacheSize THEN CacheDelete(c, c[1][1]) ELSE c, key, value)

addToCache_evictNewest(c, key, value) ==
    CacheSet(IF Len(c) >= maxCacheSize THEN CacheDelete(c, c[Len(c)][1]) ELSE c, key, value)

\* addToCache(key, value)
addToCache(c, key, value) ==
    LET afterEvict ==
            IF Len(c) >= maxCacheSize
            THEN CacheDelete(c, c[1][1])       \* firstKey = this.cache.keys().next().value
            ELSE c
    IN  CacheSet(afterEvict, key, value)

(***************************************************************************)
(* lookup(key, onProgress)                                                 *)
(***************************************************************************)

\* The pure methods, tabulated once over the workload.
Validated == [k \in Keys |-> validateKey(k)]
Normalized == [k \in Keys |-> normalizeKey(k)]
NormalizedKeys == {Normalized[k] : k \in Keys}
Hashed == [n \in NormalizedKeys |-> fnv1a_32(n)]

\* A variant of getChunkId with a plausible bug: the 0-based residue is returned.
getChunkId_zeroBased(key, totalChunks) == JsMod(Hashed[key], totalChunks)

\* getChunkId(key) with this.meta.total_chunks = totalChunks.
getChunkId(key, totalChunks) == JsPlusOne(JsMod(Hashed[key], totalChunks))

ChunkTexts == {ChunkFiles[u] : u \in DOMAIN ChunkFiles}
Scanned == [t \in ChunkTexts, n \in NormalizedKeys |-> scanChunk(t, n)]

\* A thrown value: an Error with a message, or the value null.
Err(msg) == [isNull |-> FALSE, message |-> msg]
ThrownNull == [isNull |-> TRUE, message |-> ""]

InvalidKeyMessage == "Invalid key format. Must be 32 hexadecimal characters."
KeyNotFoundMessage == "Key not found in dataset"
FetchFailedMessage(chunkId) == "Failed to fetch chunk " \o NumToString(chunkId)
\* Messages of errors the platform or the callback raises (their text is not
\* the program's).
NullMetaMessage == "Cannot read properties of null (reading total_chunks)"
NullErrorMessage == "Cannot read properties of null (reading message)"
TransportMessage == "Failed to fetch"
BodyReadMessage == "Failed to read the response body"
CallbackMessage == "progress callback failed"

IdleLookup ==
    [pc |-> "idle", key |-> "", cb |-> NoCallback, step |-> 0, chunkId |-> Null,
     hit |-> FALSE, nfetch |-> 0, url |-> "", fetched |-> "none", text |-> "",
     phases |-> <<>>, elapsed |-> 0, expect |-> Null, result |-> Null, rejection |-> Null]

\* The fields of a lookup: pc, where the invocation is ("idle", suspended at
\* "awaitResponse", "awaitText" or "awaitChunk", or settled: "returned" with
\* result, "rejected" with rejection); step, the last of steps 1-5 it entered;
\* hit, whether fetchChunk found the chunk cached; nfetch, its calls of
\* fetch(url); fetched, how its fetch went ("none", "ok", "status", "reject",
\* "body"); phases, what onProgress was called with; elapsed, the suspend
\* points it has passed (its clock); expect, known[key] when it started.

\* if (onProgress) onProgress(phase): the phases the callback has been called with.
Emit(l, phase) ==
    IF l.cb.kind = "none" THEN l ELSE [l EXCEPT !.phases = Append(@, phase)]

\* Whether the callback throws on its n-th call, and what.
Throws(cb, n) == cb.kind \in {"throwsError", "throwsNull"} /\ cb.at = n
CallbackThrow(cb) == IF cb.kind = "throwsNull" THEN ThrownNull ELSE Err(CallbackMessage)

\* The catch block of lookup (lines 213-224): error.message of null is itself a
\* TypeError, thrown out of the catch block, which rejects lookup's promise.
Catch(l, error) ==
    IF error.isNull
    THEN [l EXCEPT !.pc = "rejected", !.rejection = Some(NullErrorMessage)]
    ELSE [l EXCEPT !.pc = "returned",
                   !.result = Some([success |-> FALSE, error |-> error.message,
                                    duration |-> l.elapsed])]

ChunkUrl(chunkId) == "chunks/" \o "chunk_" \o padStart(NumToString(chunkId), 5, "0") \o ".txt"

cacheKeyOf(chunkId) == "chunk_" \o NumToString(chunkId)

\* Variants of fetchChunk with a plausible bug: a hit moves the entry to the
\* newest position (the LRU the comments name); the cache is not consulted.
fetchChunkStart_moveToBack(l, chunkId, c) ==
    IF CacheHas(c, cacheKeyOf(chunkId))
    THEN [l |-> [l EXCEPT !.pc = "awaitChunk", !.hit = TRUE,
                          !.text = CacheGet(c, cacheKeyOf(chunkId))],
          cache |-> Append(CacheDelete(c, cacheKeyOf(chunkId)),
                           <<cacheKeyOf(chunkId), CacheGet(c, cacheKeyOf(chunkId))>>)]
    ELSE [l |-> [l EXCEPT !.pc = "awaitResponse", !.nfetch = @ + 1,
                          !.url = ChunkUrl(chunkId)],
          cache |-> c]

fetchChunkStart_noCache(l, chunkId, c) ==
    [l |-> [l EXCEPT !.pc = "awaitResponse", !.nfetch = @ + 1, !.url = ChunkUrl(chunkId)],
     cache |-> c]

\* fetchChunk(chunkId) up to its first await (lines 100-114): the lookup and
\* the cache after it.  Map.prototype.get leaves the map as it is.
fetchChunkStart(l, chunkId, c) ==
    IF CacheHas(c, cacheKeyOf(chunkId))
    THEN [l |-> [l EXCEPT !.pc = "awaitChunk", !.hit = TRUE,
                          !.text = CacheGet(c, cacheKeyOf(chunkId))],
          cache |-> c]
    ELSE [l |-> [l EXCEPT !.pc = "awaitResponse", !.nfetch = @ + 1,
                          !.url = ChunkUrl(chunkId)],
          cache |-> c]

\* A variant of lookup with a plausible bug: without metadata getChunkId falls
\* back on the default chunk count (this.meta?.total_chunks ?? 2860).
lookupStart_defaultChunks(key, cb, m, c) ==
    LET l1 == Emit([IdleLookup EXCEPT !.key = key, !.cb = cb, !.step = 1],
                   "Validating key...")
    IN  IF Throws(cb, 1) THEN [l |-> Catch(l1, CallbackThrow(cb)), cache |-> c]
        ELSE IF ~Validated[key] THEN [l |-> Catch(l1, Err(InvalidKeyMessage)), cache |-> c]
        ELSE
        LET normalizedKey == Normalized[key]
            l3 == Emit([l1 EXCEPT !.step = 3], "Calculating chunk ID...")
        IN  IF Throws(cb, 2) THEN [l |-> Catch(l3, CallbackThrow(cb)), cache |-> c]
            ELSE
            LET chunkId == getChunkId(normalizedKey,
                                      IF m = Null THEN DefaultTotalChunks
                                      ELSE m[1].total_chunks)
                l4 == Emit([l3 EXCEPT !.step = 4, !.chunkId = Some(chunkId)],
                           "Loading chunk " \o NumToString(chunkId) \o "...")
            IN  IF Throws(cb, 3) THEN [l |-> Catch(l4, CallbackThrow(cb)), cache |-> c]
                ELSE fetchChunkStart(l4, chunkId, c)

\* lookup up to its first await (lines 166-189), or to its return when it
\* throws before: the lookup and the cache after it.
lookupStart(key, cb, m, c) ==
    LET l1 == Emit([IdleLookup EXCEPT !.key = key, !.cb = cb, !.step = 1],
                   "Validating key...")
    IN  IF Throws(cb, 1) THEN [l |-> Catch(l1, CallbackThrow(cb)), cache |-> c]
        ELSE IF ~Validated[key] THEN [l |-> Catch(l1, Err(InvalidKeyMessage)), cache |-> c]
        ELSE
        LET normalizedKey == Normalized[key]
            l3 == Emit([l1 EXCEPT !.step = 3], "Calculating chunk ID...")
        IN  IF Throws(cb, 2) THEN [l |-> Catch(l3, CallbackThrow(cb)), cache |-> c]
            ELSE IF m = Null THEN [l |-> Catch(l3, Err(NullMetaMessage)), cache |-> c]
            ELSE
            LET chunkId == getChunkId(normalizedKey, m[1].total_chunks)
                l4 == Emit([l3 EXCEPT !.step = 4, !.chunkId = Some(chunkId)],
                           "Loading chunk " \o NumToString(chunkId) \o "...")
            IN  IF Throws(cb, 3) THEN [l |-> Catch(l4, CallbackThrow(cb)), cache |-> c]
                ELSE fetchChunkStart(l4, chunkId, c)

\* lookup after await this.fetchChunk(chunkId) (lines 191-211).
lookupFinish(l) ==
    LET l5 == Emit([l EXCEPT !.step = 5], "Scanning for key...")
        value == Scanned[l.text, Normalized[l.key]]
    IN  IF Throws(l.cb, 4) THEN Catch(l5, CallbackThrow(l.cb))
        ELSE IF value = Null THEN Catch(l5, Err(KeyNotFoundMessage))
        ELSE [l5 EXCEPT !.pc = "returned",
                        !.result = Some([success |-> TRUE, value |-> value[1],
                                         duration |-> l.elapsed, chunkId |-> l.chunkId[1],
                                         mphfIndex |-> "N/A"])]

InFlight(l) == l.pc \in {"awaitResponse", "awaitText", "awaitChunk"}

\* The page as served: the loading, result and error containers hidden.
DomAtLoad ==
    [loading |-> FALSE, result |-> FALSE, error |-> FALSE, buttonDisabled |-> FALSE,
     resultValue |-> "", errorMessage |-> ""]

(***************************************************************************)
(* Actions                                                                 *)
(***************************************************************************)

Init ==
    /\ meta = Null
    /\ initialized = FALSE
    /\ cache = <<>>
    /\ initPc = "new"
    /\ lk = [p \in Callers |-> IdleLookup]
    /\ started = 0
    /\ fresh = 0
    /\ overlaps = 0
    /\ fetches = 0
    /\ known = [n \in NormalizedKeys |-> Null]
    /\ probe = Null
    /\ served = [how |-> "none", body |-> Null]
    /\ isSearching = FALSE
    /\ hideTimeout = FALSE
    /\ dom = DomAtLoad
    /\ searching = {}
    /\ requests = 0
    /\ lookupTable = Null
    /\ loaded = FALSE
    /\ debugMode = FALSE
    /\ loadPc = "new"
    /\ loads = 0
    /\ lastLoad = [how |-> "none", returned |-> FALSE]

Defaults == [total_chunks |-> DefaultTotalChunks, total_keys |-> DefaultTotalKeys]

\* init() up to await fetch('meta.json') in loadMetadata.
InitStart ==
    /\ initPc = "new"
    /\ initPc' = "awaitFetch"
    /\ UNCHANGED <<meta, initialized, cache, lk, started, fresh, overlaps, fetches, known, probe, served, uiVars, mphfVars>>

\* fetch('meta.json') settles: a success status, another status, or a rejection.
MetaResponds(outcome) ==
    /\ initPc = "awaitFetch"
    /\ IF outcome = "ok"
       THEN /\ initPc' = "awaitJson"
            /\ UNCHANGED <<meta, initialized, served>>
       ELSE /\ meta' = Some(Defaults)
            /\ initialized' = TRUE
            /\ initPc' = "done"
            /\ served' = [how |-> outcome, body |-> Null]
    /\ UNCHANGED <<cache, lk, started, fresh, overlaps, fetches, known, probe, uiVars, mphfVars>>

\* A variant of MetaParsed with a plausible bug: response.json() is awaited
\* outside the try block, so an unparseable body makes init() throw.
MetaParsed_throws(outcome, d) ==
    /\ initPc = "awaitJson"
    /\ meta' = IF outcome = "ok" THEN Some(d) ELSE meta
    /\ initialized' = (outcome = "ok")
    /\ initPc' = IF outcome = "ok" THEN "done" ELSE "failed"
    /\ served' = IF outcome = "ok" THEN [how |-> "parsed", body |-> Some(d)]
                 ELSE [how |-> "unparseable", body |-> Null]
    /\ UNCHANGED <<cache, lk, started, fresh, overlaps, fetches, known, probe, uiVars, mphfVars>>

\* response.json() settles: the descriptor d, or a rejection (unparseable body).
MetaParsed(outcome, d) ==
    /\ initPc = "awaitJson"
    /\ meta' = IF outcome = "ok" THEN Some(d) ELSE Some(Defaults)
    /\ initialized' = TRUE
    /\ initPc' = "done"
    /\ served' = IF outcome = "ok" THEN [how |-> "parsed", body |-> Some(d)]
                 ELSE [how |-> "unparseable", body |-> Null]
    /\ UNCHANGED <<cache, lk, started, fresh, overlaps, fetches, known, probe, uiVars, mphfVars>>

\* A caller invokes lookup(key, onProgress).
StartLookup(p, key, cb) ==
    LET busy == \E q \in Callers \ {p} : InFlight(lk[q])
        after == lookupStart(key, cb, meta, cache)
    IN
    /\ lk[p].pc = "idle"
    /\ GroupOf(key) <= fresh + 1
    /\ lk' = [lk EXCEPT ![p] = [after.l EXCEPT !.expect = known[Normalized[key]]]]
    /\ cache' = after.cache
    /\ started' = started + 1
    /\ fresh' = IF GroupOf(key) > fresh THEN GroupOf(key) ELSE fresh
    /\ overlaps' = IF busy THEN overlaps + 1 ELSE overlaps
    /\ fetches' = fetches + after.l.nfetch
    /\ UNCHANGED <<meta, initialized, initPc, known, probe, served, uiVars, mphfVars>>

\* A variant of FetchResponds with a plausible bug: the body is cached before
\* response.ok is tested.
FetchResponds_cacheFirst(p, outcome) ==
    LET l == [lk[p] EXCEPT !.elapsed = @ + 1, !.fetched = outcome] IN
    /\ lk[p].pc = "awaitResponse"
    /\ outcome = "ok" => lk[p].url \in DOMAIN ChunkFiles
    /\ lk' = [lk EXCEPT ![p] =
                IF outcome = "ok" THEN [l EXCEPT !.pc = "awaitText"]
                ELSE IF outcome = "status" THEN Catch(l, Err(FetchFailedMessage(l.chunkId[1])))
                ELSE Catch(l, Err(TransportMessage))]
    /\ cache' = IF outcome = "status"
                THEN addToCache(cache, cacheKeyOf(l.chunkId[1]), "Not Found")
                ELSE cache
    /\ UNCHANGED <<meta, initialized, initPc, started, fresh, overlaps, fetches, known, probe, served, uiVars, mphfVars>>

\* fetch(url) settles (line 114): the file with a success status, another
\* status (which throws, lines 115-117), or a rejection.
FetchResponds(p, outcome) ==
    LET l == [lk[p] EXCEPT !.elapsed = @ + 1, !.fetched = outcome] IN
    /\ lk[p].pc = "awaitResponse"
    /\ outcome = "ok" => lk[p].url \in DOMAIN ChunkFiles
    /\ lk' = [lk EXCEPT ![p] =
                IF outcome = "ok" THEN [l EXCEPT !.pc = "awaitText"]
                ELSE IF outcome = "status" THEN Catch(l, Err(FetchFailedMessage(l.chunkId[1])))
                ELSE Catch(l, Err(TransportMessage))]
    /\ UNCHANGED <<meta, initialized, cache, initPc, started, fresh, overlaps, fetches, known, probe, served, uiVars, mphfVars>>

\* The keys whose shard, under the loaded metadata, is the cache key ck.
KeysOfShard(ck) ==
    {n \in NormalizedKeys :
        /\ meta # Null
        /\ Validated[n]
        /\ cacheKeyOf(getChunkId(n, meta[1].total_chunks)) = ck}

\* A variant of TextResolves with a plausible bug: the text is cached only when
\* it holds the key looked up.
TextResolves_cacheIfFound(p, outcome) ==
    LET l == [lk[p] EXCEPT !.elapsed = @ + 1] IN
    /\ lk[p].pc = "awaitText"
    /\ IF outcome = "ok"
       THEN /\ cache' = IF Scanned[ChunkFiles[l.url], Normalized[l.key]] = Null
                         THEN cache
                         ELSE addToCache(cache, cacheKeyOf(l.chunkId[1]), ChunkFiles[l.url])
            /\ lk' = [lk EXCEPT ![p] = [l EXCEPT !.pc = "awaitChunk", !.text = ChunkFiles[l.url]]]
       ELSE /\ cache' = cache
            /\ lk' = [lk EXCEPT ![p] = Catch([l EXCEPT !.fetched = "body"], Err(BodyReadMessage))]
    /\ known' = [n \in NormalizedKeys |->
                    IF \E ck \in CacheKeys(cache) \ CacheKeys(cache') : n \in KeysOfShard(ck)
                    THEN Null ELSE known[n]]
    /\ UNCHANGED <<meta, initialized, initPc, started, fresh, overlaps, fetches, probe, served, uiVars, mphfVars>>

\* response.text() settles (line 119); its text is cached (lines 121-124).
TextResolves(p, outcome) ==
    LET l == [lk[p] EXCEPT !.elapsed = @ + 1] IN
    /\ lk[p].pc = "awaitText"
    /\ IF outcome = "ok"
       THEN /\ cache' = addToCache(cache, cacheKeyOf(l.chunkId[1]), ChunkFiles[l.url])
            /\ lk' = [lk EXCEPT ![p] = [l EXCEPT !.pc = "awaitChunk", !.text = ChunkFiles[l.url]]]
       ELSE /\ cache' = cache
            /\ lk' = [lk EXCEPT ![p] = Catch([l EXCEPT !.fetched = "body"], Err(BodyReadMessage))]
    /\ known' = [n \in NormalizedKeys |->
                    IF \E ck \in CacheKeys(cache) \ CacheKeys(cache') : n \in KeysOfShard(ck)
                    THEN Null ELSE known[n]]
    /\ UNCHANGED <<meta, initialized, initPc, started, fresh, overlaps, fetches, probe, served, uiVars, mphfVars>>

\* lookup resumes with the chunk text and scans it.
ResumeScan(p) ==
    LET l == lookupFinish([lk[p] EXCEPT !.elapsed = @ + 1]) IN
    /\ lk[p].pc = "awaitChunk"
    /\ lk' = [lk EXCEPT ![p] = l]
    /\ known' = IF /\ l.pc = "returned"
                   /\ l.result[1].success
                   /\ CacheHas(cache, cacheKeyOf(l.chunkId[1]))
                THEN [known EXCEPT ![Normalized[l.key]] = Some(l.result[1].value)]
                ELSE known
    /\ UNCHANGED <<meta, initialized, cache, initPc, started, fresh, overlaps, fetches, probe, served, uiVars, mphfVars>>

\* The caller takes the settled promise's result.
Collect(p) ==
    /\ lk[p].pc \in {"returned", "rejected"}
    /\ lk' = [lk EXCEPT ![p] = IdleLookup]
    /\ UNCHANGED <<meta, initialized, cache, initPc, started, fresh, overlaps, fetches, known, probe, served, uiVars, mphfVars>>

\* Any callers, keys, callbacks and server behaviour, for MaxLookups lookups.
Next ==
    \/ InitStart
    \/ \E outcome \in {"ok", "status", "reject"} : MetaResponds(outcome)
    \/ \E outcome \in {"ok", "reject"}, d \in MetaDescriptors : MetaParsed(outcome, d)
    \/ \E p \in Callers, key \in Keys, cb \in Callbacks :
          started < MaxLookups /\ StartLookup(p, key, cb)
    \/ \E p \in Callers, outcome \in {"ok", "status", "reject"} : FetchResponds(p, outcome)
    \/ \E p \in Callers, outcome \in {"ok", "reject"} : TextResolves(p, outcome)
    \/ \E p \in Callers : ResumeScan(p)
    \/ \E p \in Callers : Collect(p)

Spec == Init /\ [][Next]_vars

\* The workload that fills the cache: the application as initApp runs it (the
\* descriptor is served, lookups start once init() has returned), lookups
\* without a progress callback, one key per shard and the second key of the
\* first shard, a server that serves every chunk.
FillKeys == {CHOOSE k \in KeyGroups[g] : Validated[k] /\ Normalized[k] = k : g \in 1..Len(KeyGroups)}
                \cup KeyGroups[1]

FillNext ==
    \/ InitStart
    \/ MetaResponds("ok")
    \/ MetaParsed("ok", [total_chunks |-> 2860, total_keys |-> 11])
    \/ \E p \in Callers, key \in FillKeys :
          /\ initialized
          /\ GroupOf(key) <= fresh => started - fresh < MaxRepeats
          /\ (\E q \in Callers \ {p} : InFlight(lk[q])) => overlaps < MaxOverlaps
          /\ StartLookup(p, key, NoCallback)
    \/ \E p \in Callers : FetchResponds(p, "ok")
    \/ \E p \in Callers : TextResolves(p, "ok")
    \/ \E p \in Callers : ResumeScan(p)
    \/ \E p \in Callers : Collect(p)

FillSpec == Init /\ [][FillNext]_vars

\* The locator on its own: getChunkId for the well-formed keys of the workload
\* and the chunk counts 1..MaxChunks and the default.
HexKeys == {n \in NormalizedKeys : Validated[n]}

Locate(key, n) ==
    /\ probe' = Some([op |-> "getChunkId", key |-> key, n |-> n, id |-> getChunkId(key, n)])
    /\ UNCHANGED <<meta, initialized, cache, initPc, lk, started, fresh, overlaps, fetches, known, served, uiVars, mphfVars>>

LocateNext == \E key \in HexKeys, n \in 1..MaxChunks \cup {DefaultTotalChunks} : Locate(key, n)

LocateSpec == Init /\ [][LocateNext]_vars

(***************************************************************************)
(* UIController.  The page is the one the repository ships: every element  *)
(* the constructor looks up exists.  Of the containers the model keeps      *)
(* whether they are hidden and their texts; the 'show' class, which only    *)
(* animates, is left out.                                                   *)
(***************************************************************************)

\* What the search input may hold when a search is requested.
UiInputs ==
    {"", "  ", Zeros31 \o "0", " " \o Zeros31 \o "0", Zeros31 \o "g",
     "000000000000000000000000000006d2"}

\* showError(message), lines 383-388.
showError(d, message) ==
    [d EXCEPT !.result = FALSE, !.error = TRUE, !.errorMessage = message]

\* showResult(result), lines 357-369.
showResult(d, result) ==
    [d EXCEPT !.error = FALSE, !.resultValue = result.value, !.result = TRUE]

\* showLoading(), lines 338-339.
showLoading(d) == [d EXCEPT !.loading = TRUE, !.buttonDisabled = TRUE]

\* hideLoading()
hideLoading(d) == [d EXCEPT !.loading = FALSE, !.buttonDisabled = FALSE]

\* (step) => this.updateLoadingStep(step): the text of loadingSteps while the
\* lookup of slot p runs is the last phase it emitted.
loadingSteps(p) ==
    IF lk[p].phases = <<>> THEN "" ELSE lk[p].phases[Len(lk[p].phases)]

\* handleSearch past its guard (lines 294-311), the lookup running in slot p:
\* a blank input shows an error; otherwise the guard is set, hideAll() starts
\* the hide timer and showLoading() clears it again, and lookup(key, callback)
\* runs to its first await.
SearchBegins(value, p) ==
    LET key == trim(value)
        after == lookupStart(key, Observer, meta, cache)
        busy == \E q \in Callers \ {p} : InFlight(lk[q])
    IN  IF key = ""
        THEN /\ dom' = showError(dom, "Please enter a key")
             /\ hideTimeout' = FALSE
             /\ UNCHANGED <<isSearching, searching, lk, cache, started, fresh, overlaps, fetches>>
        ELSE /\ lk[p].pc = "idle"
             /\ isSearching' = TRUE
             /\ hideTimeout' = FALSE
             /\ dom' = showLoading(dom)
             /\ searching' = searching \cup {p}
             /\ lk' = [lk EXCEPT ![p] = [after.l EXCEPT !.expect = known[Normalized[key]]]]
             /\ cache' = after.cache
             /\ started' = started + 1
             /\ fresh' = IF GroupOf(key) > fresh THEN GroupOf(key) ELSE fresh
             /\ overlaps' = IF busy THEN overlaps + 1 ELSE overlaps
             /\ fetches' = fetches + after.l.nfetch

\* A variant of handleSearch with a plausible bug: line 292 is missing.
HandleSearch_unguarded(value) ==
    /\ initPc = "done"
    /\ requests' = requests + 1
    /\ \E p \in Callers : SearchBegins(value, p)
    /\ UNCHANGED <<meta, initialized, initPc, known, probe, served, mphfVars>>

\* A click or Enter: handleSearch() up to its await (lines 291-311).  The
\* controller exists once initApp has awaited init() (lines 451-454).
HandleSearch(value) ==
    /\ initPc = "done"
    /\ requests' = requests + 1
    /\ IF isSearching
       THEN UNCHANGED <<isSearching, hideTimeout, dom, searching, lk, cache,
                        started, fresh, overlaps, fetches>>
       ELSE \E p \in Callers : SearchBegins(value, p)
    /\ UNCHANGED <<meta, initialized, initPc, known, probe, served, mphfVars>>

\* handleSearch resumes from its await (lines 311-330) with the result of the
\* lookup, or with its rejection; finally releases the guard.
SearchResumes(p) ==
    /\ p \in searching
    /\ lk[p].pc \in {"returned", "rejected"}
    /\ dom' = IF lk[p].pc = "returned"
              THEN IF lk[p].result[1].success
                   THEN showResult(hideLoading(dom), lk[p].result[1])
                   ELSE showError(hideLoading(dom), lk[p].result[1].error)
              ELSE showError(hideLoading(dom), "An unexpected error occurred")
    /\ hideTimeout' = FALSE
    /\ isSearching' = FALSE
    /\ searching' = searching \ {p}
    /\ lk' = [lk EXCEPT ![p] = IdleLookup]
    /\ UNCHANGED <<meta, initialized, cache, initPc, started, fresh, overlaps, fetches,
                   known, probe, served, requests, mphfVars>>

\* The application: initApp, then searches through the page, against any
\* server behaviour.
UiNext ==
    \/ InitStart
    \/ \E outcome \in {"ok", "status", "reject"} : MetaResponds(outcome)
    \/ \E outcome \in {"ok", "reject"}, d \in MetaDescriptors : MetaParsed(outcome, d)
    \/ \E value \in UiInputs : requests < MaxSearches /\ HandleSearch(value)
    \/ \E p \in Callers, outcome \in {"ok", "status", "reject"} : FetchResponds(p, outcome)
    \/ \E p \in Callers, outcome \in {"ok", "reject"} : TextResolves(p, outcome)
    \/ \E p \in Callers : ResumeScan(p)
    \/ \E p \in Callers : SearchResumes(p)

UiSpec == Init /\ [][UiNext]_vars

(***************************************************************************)
(* MPHFEvaluator (src/mphf/mphf.js)                                        *)
(***************************************************************************)

\* mphf/mphf_debug.json as the server may serve it: an object from keys to
\* indexes.
MphfTable == (Zeros31 \o "0" :> 0) @@ (Zeros31 \o "1" :> 1)

\* Some of the property names every object inherits from Object.prototype.
ObjectPrototypeKeys == {"constructor", "toString", "valueOf", "hasOwnProperty"}

Undefined == [kind |-> "undefined", n |-> <<0, 0>>]
Number(u) == [kind |-> "number", n |-> u]
Inherited == [kind |-> "function", n |-> <<0, 0>>]

\* this.lookupTable[key] on the parsed object: its own property, else one it
\* inherits, else undefined.
GetProperty(table, key) ==
    IF key \in DOMAIN table THEN Number(ToUint32(table[key]))
    ELSE IF key \in ObjectPrototypeKeys THEN Inherited
    ELSE Undefined

\* u << 5 on 32 bits.
Shl5(u) == <<(u[1] * 32 + u[2] \div 2048) % 65536, (u[2] * 32) % 65536>>

\* u - v modulo 2^32.
SubU32(u, v) ==
    LET l == u[2] - v[2] + 65536
    IN  <<(u[1] - v[1] + 65536 + (l \div 65536) - 1) % 65536, l % 65536>>

RECURSIVE SimpleHashLoop(_, _)
\* hash after the loop's first n iterations (lines 52-56): a signed 32-bit
\* integer, ((hash << 5) - hash) + char brought back to 32 bits by hash & hash.
SimpleHashLoop(key, n) ==
    IF n = 0 THEN 0
    ELSE LET hash == SimpleHashLoop(key, n - 1)
         IN  CASE hash \in Int ->
                  LET u == ToUint32(hash)
                  IN  ToInt32(AddU32(SubU32(Shl5(u), u), <<0, charCodeAt(key, n)>>))

\* Math.abs of a signed 32-bit integer, as <<hi, lo>> (2^31 for -2^31).
Abs32(a) ==
    IF a >= 0 THEN ToUint32(a)
    ELSE IF a = -2147483647 - 1 THEN <<32768, 0>>
    ELSE ToUint32(-a)

\* simpleHash(key)
simpleHash(key) == Abs32(SimpleHashLoop(key, Len(key)))

\* mphf.lookup(key): what it throws or returns.
mphfLookup(key) ==
    IF ~loaded THEN [raised |-> TRUE, value |-> Undefined]
    ELSE IF debugMode /\ lookupTable # Null
         THEN [raised |-> FALSE, value |-> GetProperty(lookupTable[1], key)]
    ELSE [raised |-> FALSE, value |-> Number(simpleHash(key))]

MphfKeys == {Zeros31 \o "0", Zeros31 \o "1", Zeros31 \o "f", "", "a", "constructor"}

\* load() is called (no other call of it in flight), up to await fetch(...).
LoadStart ==
    /\ loadPc \in {"new", "done"}
    /\ loadPc' = "awaitFetch"
    /\ UNCHANGED <<meta, initialized, cache, initPc, lk, started, fresh, overlaps, fetches,
                   known, probe, served, uiVars, lookupTable, loaded, debugMode, loads, lastLoad>>

\* fetch('mphf/mphf_debug.json') settles (lines 16-17, 24-30).
LoadResponds(outcome) ==
    /\ loadPc = "awaitFetch"
    /\ IF outcome = "ok"
       THEN /\ loadPc' = "awaitJson"
            /\ UNCHANGED <<loaded, loads, lastLoad>>
       ELSE /\ loaded' = TRUE
            /\ loadPc' = "done"
            /\ loads' = loads + 1
            /\ lastLoad' = [how |-> "fallback", returned |-> TRUE]
    /\ UNCHANGED <<meta, initialized, cache, initPc, lk, started, fresh, overlaps, fetches,
                   known, probe, served, uiVars, lookupTable, debugMode>>

\* response.json() settles (lines 18-22, 24-30).
LoadParsed(outcome) ==
    /\ loadPc = "awaitJson"
    /\ IF outcome = "ok"
       THEN /\ lookupTable' = Some(MphfTable)
            /\ debugMode' = TRUE
            /\ lastLoad' = [how |-> "debug", returned |-> TRUE]
       ELSE /\ UNCHANGED <<lookupTable, debugMode>>
            /\ lastLoad' = [how |-> "fallback", returned |-> TRUE]
    /\ loaded' = TRUE
    /\ loadPc' = "done"
    /\ loads' = loads + 1
    /\ UNCHANGED <<meta, initialized, cache, initPc, lk, started, fresh, overlaps, fetches,
                   known, probe, served, uiVars>>

\* A call of mphf.lookup(key).
MphfLookup(key) ==
    /\ probe' = Some([op |-> "mphf.lookup", key |-> key, out |-> mphfLookup(key)])
    /\ UNCHANGED <<meta, initialized, cache, initPc, lk, started, fresh, overlaps, fetches,
                   known, served, uiVars, mphfVars>>

MphfNext ==
    \/ loads + (IF loadPc \in {"awaitFetch", "awaitJson"} THEN 1 ELSE 0) < MaxLoads /\ LoadStart
    \/ \E outcome \in {"ok", "status", "reject"} : LoadResponds(outcome)
    \/ \E outcome \in {"ok", "reject"} : LoadParsed(outcome)
    \/ \E key \in MphfKeys : MphfLookup(key)

MphfSpec == Init /\ [][MphfNext]_vars

(***************************************************************************)
(* Properties                                                              *)
(***************************************************************************)

Settled(l) == l.pc \in {"returned", "rejected"}

Failed(l) == l.pc = "returned" /\ ~l.result[1].success

\* The error kinds of the design, read off a failure's message: the three
\* messages lookup and fetchChunk raise themselves, and the catch-all.
KindOf(message) ==
    IF message = InvalidKeyMessage THEN "InvalidKeyFormat"
    ELSE IF message = KeyNotFoundMessage THEN "KeyNotFound"
    ELSE IF Len(message) >= 22 /\ SubSeq(message, 1, 22) = "Failed to fetch chunk "
         THEN "ShardUnavailable"
    ELSE "UnexpectedError"

\* The shard of each key group in the data set, as its builder assigned them.
ShardOrder == <<510, 2511, 1652, 793, 2794, 1935, 1076, 217, 1662, 803, 1319>>

CacheOrder == [i \in 1..Len(cache) |-> cache[i][1]]

\* C1: in every reachable state, also when lookups overlap at the fetch, the
\* cache holds at most maxCacheSize (10) entries and at most one per shard id.
C1_CacheBounded ==
    /\ Len(cache) <= maxCacheSize
    /\ \A i, j \in 1..Len(cache) : cache[i][1] = cache[j][1] => i = j

\* An insertion into the full cache has happened, with lookups overlapping.
C1_Witness == Len(cache) = maxCacheSize /\ overlaps > 0 /\ fetches > maxCacheSize

C2_FifoAfterFill ==
    (overlaps = 0 /\ fetches = maxCacheSize + 1 /\ \A p \in Callers : ~InFlight(lk[p]))
        => CacheOrder = [i \in 1..maxCacheSize |-> "chunk_" \o ToString(ShardOrder[i + 1])]

C2_EvictsOldest ==
    \A ck \in CacheKeys(cache) \ CacheKeys(cache') :
        Len(cache) = maxCacheSize /\ ck = cache[1][1]

HitStep(p) ==
    \/ lk[p].pc = "idle" /\ lk'[p].pc = "awaitChunk" /\ lk'[p].hit
    \/ lk[p].pc = "awaitChunk" /\ lk[p].hit /\ lk'[p].pc # "awaitChunk"

C4_Step(p) ==
    /\ (lk[p].pc = "idle" /\ InFlight(lk'[p])) =>
          /\ lk'[p].nfetch =
                IF CacheHas(cache, "chunk_" \o NumToString(lk'[p].chunkId[1])) THEN 0 ELSE 1
          /\ fetches' = fetches + lk'[p].nfetch
          /\ known[Normalized[lk'[p].key]] # Null => lk'[p].nfetch = 0
    /\ (lk[p].pc # "idle" /\ lk'[p].pc # "idle") =>
          lk'[p].nfetch = lk[p].nfetch
    /\ (lk[p].pc = "awaitChunk" /\ Settled(lk'[p]) /\ lk[p].expect # Null) =>
          /\ lk'[p].pc = "returned"
          /\ lk'[p].result[1].success
          /\ lk'[p].result[1].value = lk[p].expect[1]
          /\ lk'[p].nfetch = 0

\* C4: the Fetcher is called only on a cache miss: a lookup that reaches the
\* acquire step calls fetch once if its shard is not cached (never cached, or
\* evicted) and not at all if it is; a lookup of a key that an earlier lookup
\* returned a value for, the shard not evicted since, calls fetch zero times
\* and returns the identical value.
C4_FetchOnlyOnMiss == [][\A p \in Callers : C4_Step(p)]_vars

\* A second lookup of a key has returned, the first having returned a value.
C4_Witness ==
    \E p \in Callers : lk[p].pc = "returned" /\ lk[p].expect # Null /\ lk[p].nfetch = 0

FetchFailStep(p) == lk[p].pc \in {"awaitResponse", "awaitText"} /\ Settled(lk'[p])

\* C5: when the shard fetch of a lookup fails, the lookup returns a failure and
\* none of its steps, from the call on, has changed the cache.
C5_FailedFetchLeavesCache ==
    [][\A p \in Callers :
          /\ FetchFailStep(p) => Failed(lk'[p]) /\ cache' = cache
          /\ (lk[p].pc = "idle" /\ lk'[p].pc = "awaitResponse") => cache' = cache]_vars

\* A lookup has returned after its fetch failed.
C5_Witness ==
    \E p \in Callers : Failed(lk[p]) /\ lk[p].fetched \in {"status", "reject", "body"}

\* C6: KeyNotFound is reported only after the chunk text was acquired and the
\* scan found no record, and every failure of the fetch (status, transport
\* error) is reported as the one kind ShardUnavailable.
C6_FailureKindsByCause ==
    \A p \in Callers :
        Failed(lk[p]) =>
            /\ KindOf(lk[p].result[1].error) = "KeyNotFound" =>
                  /\ lk[p].hit \/ lk[p].fetched = "ok"
                  /\ scanChunk(lk[p].text, normalizeKey(lk[p].key)) = Null
            /\ lk[p].fetched \in {"status", "reject", "body"} =>
                  KindOf(lk[p].result[1].error) = "ShardUnavailable"

\* C7: a lookup whose key fails validation (validation is reached: the
\* callback, if any, returned from its 'Validating key...' call) ends with
\* InvalidKeyFormat at step 1: no shard id is computed, fetch is not called,
\* the cache is unchanged.
C7_InvalidKeyFailsFast ==
    [][\A p \in Callers :
          (/\ lk[p].pc = "idle" /\ lk'[p].pc # "idle"
           /\ lk'[p].key \in MalformedKeys
           /\ ~Throws(lk'[p].cb, 1)) =>
              /\ Failed(lk'[p])
              /\ KindOf(lk'[p].result[1].error) = "InvalidKeyFormat"
              /\ lk'[p].step = 1 /\ lk'[p].chunkId = Null /\ lk'[p].nfetch = 0
              /\ fetches' = fetches
              /\ cache' = cache]_vars

\* A lookup of a malformed key has returned.
C7_Witness ==
    \E p \in Callers :
        lk[p].key \in MalformedKeys /\ Failed(lk[p]) /\ ~Throws(lk[p].cb, 1)

\* C8: every lookup, whatever the callback does, ends by returning a result
\* that is a success with a value or a failure with an error, and carries the
\* elapsed time; nothing escapes as a rejection.
C8_AlwaysStructuredResult ==
    \A p \in Callers :
        /\ lk[p].pc # "rejected"
        /\ lk[p].pc = "returned" =>
              LET r == lk[p].result[1] IN
              /\ "duration" \in DOMAIN r
              /\ IF r.success
                 THEN {"value", "chunkId"} \subseteq DOMAIN r /\ "error" \notin DOMAIN r
                 ELSE "error" \in DOMAIN r /\ "value" \notin DOMAIN r

\* C9: for every well-formed normalized key and chunk count n >= 1, getChunkId
\* is in 1..n and is congruent to hash(key) + 1 modulo n.
C9_ChunkIdInRange ==
    probe # Null =>
        LET c == probe[1]
            h == fnv1a_32(c.key)
        IN  /\ c.id \in 1..c.n
            /\ ((h[1] % c.n) * (65536 % c.n) + h[2] + c.n - (c.id - 1)) % c.n = 0

\* getChunkId has been called on a key whose hash is a multiple of the count.
C9_Witness == probe # Null /\ probe[1].n > 1 /\ probe[1].id = 1

\* C10: with total_chunks = 0 a lookup fails at the locate step: fetch is never
\* called (there is no shard id to fetch) and the failure is UnexpectedError.
C10_ZeroChunksFailsFast ==
    (meta # Null /\ meta[1].total_chunks = 0) =>
        \A p \in Callers :
            /\ lk[p].nfetch = 0
            /\ (Settled(lk[p]) /\ validateKey(lk[p].key) /\ lk[p].cb.kind \in {"none", "observer"}) =>
                  /\ Failed(lk[p])
                  /\ KindOf(lk[p].result[1].error) = "UnexpectedError"
                  /\ lk[p].step = 3

(***************************************************************************)
(* fnv1a_32 on its own                                                     *)
(***************************************************************************)

HashAlphabet == {"a", "0", "F", " ", ":"}

RECURSIVE StringsOver(_, _)
\* The strings of exactly n characters of alphabet.
StringsOver(alphabet, n) ==
    IF n = 0 THEN {""}
    ELSE {s \o c : s \in StringsOver(alphabet, n - 1), c \in alphabet}

\* What fnv1a_32 is called with: every short string, the published test
\* string "foobar", and the normalized keys of the workload.
HashInputs ==
    UNION {StringsOver(HashAlphabet, n) : n \in 0..MaxHashLen}
        \cup {"foobar"} \cup NormalizedKeys

Hash(str) ==
    /\ probe' = Some([op |-> "fnv1a_32", str |-> str, hash |-> fnv1a_32(str)])
    /\ UNCHANGED <<meta, initialized, cache, initPc, lk, started, fresh, overlaps, fetches, known, served, uiVars, mphfVars>>

HashNext == \E str \in HashInputs : Hash(str)

HashSpec == Init /\ [][HashNext]_vars

RECURSIVE XorBits(_, _, _)
\* x XOR y of two 16-bit values, bit by bit from bit i up.
XorBits(x, y, i) ==
    IF i > 15 THEN 0
    ELSE (IF (x \div 2^i) % 2 = (y \div 2^i) % 2 THEN 0 ELSE 2^i) + XorBits(x, y, i + 1)

\* One step of FNV-1a on h = <<hi, lo>> with the code unit b, by long
\* multiplication: 0x01000193 = 256 * 2^16 + 403.
FnvStep(h, b) ==
    LET lo == XorBits(h[2], b, 0)
        low == lo * 403
    IN  <<(low \div 65536 + h[1] * 403 + lo * 256) % 65536, low % 65536>>

\* Published FNV-1a 32-bit test vectors: "" 0x811c9dc5, "a" 0xe40c292c,
\* "foobar" 0xbf9cf968.
FnvVector(str) ==
    IF str = "" THEN <<33052, 40389>>
    ELSE IF str = "a" THEN <<58380, 10540>>
    ELSE <<49052, 63848>>

\* C11: fnv1a_32 is 32-bit FNV-1a: the empty string hashes to 0x811c9dc5, the
\* hash of a string is one step (xor with the last character code, then times
\* 0x01000193 modulo 2^32) from the hash of the string without its last
\* character, the value is in 0..2^32-1, the published vectors come out, and a
\* second call on the same string returns the same value.
C11_HashIsFnv1a ==
    (probe # Null /\ probe[1].op = "fnv1a_32") =>
        LET str == probe[1].str
            h == probe[1].hash
        IN  /\ h[1] \in 0..65535 /\ h[2] \in 0..65535
            /\ str = "" => h = <<33052, 40389>>
            /\ str # "" =>
                  h = FnvStep(fnv1a_32(SubSeq(str, 1, Len(str) - 1)),
                              charCodeAt(str, Len(str)))
            /\ str \in {"", "a", "foobar"} => h = FnvVector(str)
            /\ fnv1a_32(str) = h

\* A 32-character key has been hashed, to a value above 2^31.
C11_Witness ==
    /\ probe # Null /\ probe[1].op = "fnv1a_32"
    /\ Len(probe[1].str) = KeyLength
    /\ probe[1].hash[1] >= 32768

(***************************************************************************)
(* scanChunk on its own                                                    *)
(***************************************************************************)

\* The lines a chunk text is made of: records, blank lines, a line without a
\* colon, padded and upper-case keys, a value with colons, an empty value, an
\* empty key, a key that only starts like the target, a CRLF line.
ScanLineForms ==
    {"", "  ", "no colon here", "k1:v1", "k1:v2", " k1 :  v1 ", "K1:upper",
     "k1:part1:part2", "k2:", ":k1", "k1x:v", "k2:w\r"}

ScanTargets == {"k1", "k2", "K1", "k9"}

RECURSIVE SeqsOver(_, _)
\* The sequences of exactly n elements of S.
SeqsOver(S, n) ==
    IF n = 0 THEN {<<>>}
    ELSE {Append(q, x) : q \in SeqsOver(S, n - 1), x \in S}

RECURSIVE JoinLines(_)
\* The text whose lines are these: lines.join('\n').
JoinLines(lines) ==
    IF Len(lines) = 0 THEN ""
    ELSE IF Len(lines) = 1 THEN lines[1]
    ELSE lines[1] \o "\n" \o JoinLines(Tail(lines))

\* One call of scanChunk, on a fresh instance.
Scan(lines, targetKey) ==
    /\ probe = Null
    /\ probe' = Some([op |-> "scanChunk", lines |-> lines, targetKey |-> targetKey,
                      value |-> scanChunk(JoinLines(lines), targetKey)])
    /\ UNCHANGED <<meta, initialized, cache, initPc, lk, started, fresh, overlaps, fetches, known, served, uiVars, mphfVars>>

ScanNext ==
    \E n \in 0..MaxLines :
        \E lines \in SeqsOver(ScanLineForms, n), targetKey \in ScanTargets :
            Scan(lines, targetKey)

ScanSpec == Init /\ [][ScanNext]_vars

\* The text of s without its leading and trailing white space, by positions.
Trimmed(s) ==
    LET inked == {i \in 1..Len(s) : ~IsSpace(CharAt(s, i))} IN
    IF inked = {} THEN ""
    ELSE SubSeq(s, CHOOSE i \in inked : \A j \in inked : i <= j,
                   CHOOSE i \in inked : \A j \in inked : i >= j)

HasColon(line) == \E i \in 1..Len(line) : CharAt(line, i) = ":"

FirstColon(line) ==
    CHOOSE i \in 1..Len(line) :
        CharAt(line, i) = ":" /\ \A j \in 1..(i - 1) : CharAt(line, j) # ":"

\* Whether a line is a record of the key.
Matches(line, targetKey) ==
    /\ HasColon(line)
    /\ Trimmed(SubSeq(line, 1, FirstColon(line) - 1)) = targetKey

\* C12: scanChunk returns the trimmed text after the first colon of the first
\* line whose trimmed text before its first colon is the target key, compared
\* exactly; blank lines and lines without a colon are passed over; a value with
\* colons comes back whole; with no such line the result is null.
C12_ScanFirstMatch ==
    (probe # Null /\ probe[1].op = "scanChunk") =>
        LET lines == probe[1].lines
            targetKey == probe[1].targetKey
            hits == {i \in 1..Len(lines) : Matches(lines[i], targetKey)}
        IN  /\ hits = {} => probe[1].value = Null
            /\ hits # {} =>
                  LET first == CHOOSE i \in hits : \A j \in hits : i <= j
                      line == lines[first]
                  IN  probe[1].value =
                          Some(Trimmed(SubSeq(line, FirstColon(line) + 1, Len(line))))
            /\ (lines = <<"no colon here", "k1:part1:part2">> /\ targetKey = "k1")
                  => probe[1].value = Some("part1:part2")

\* A text whose first line is passed over and whose second line's value holds
\* a colon has been scanned.
C12_Witness ==
    /\ probe # Null /\ probe[1].op = "scanChunk"
    /\ probe[1].lines = <<"no colon here", "k1:part1:part2">>
    /\ probe[1].targetKey = "k1"
    /\ probe[1].value = Some("part1:part2")

\* The cache key of the shard of a lookup that has computed its chunk id.
ShardKey(l) == "chunk_" \o NumToString(l.chunkId[1])

\* The step at which lookup q caches the text it fetched.
Inserts(q) == lk[q].pc = "awaitText" /\ lk'[q].pc = "awaitChunk"

C13_Step(p) ==
    /\ Inserts(p) =>
          /\ CacheHas(cache', ShardKey(lk'[p]))
          /\ CacheGet(cache', ShardKey(lk'[p])) = lk'[p].text
          /\ lk'[p].step = 4 /\ lk'[p].result = Null
    /\ (/\ lk[p].pc = "awaitChunk" /\ ~lk[p].hit
        /\ lk'[p].pc = "awaitChunk"
        /\ CacheHas(cache, ShardKey(lk[p])) /\ ~CacheHas(cache', ShardKey(lk[p]))) =>
          /\ Len(cache) = maxCacheSize
          /\ \E q \in Callers \ {p} : Inserts(q)
    /\ (lk[p].pc = "awaitChunk" /\ ~lk[p].hit /\ Settled(lk'[p])) =>
          /\ cache' = cache
          /\ lk'[p].step = 5

\* C13: a fetched chunk is cached before it is scanned, whatever the scan
\* finds: the step that receives the text puts it in the cache with the scan
\* not yet begun; until the lookup returns, its entry leaves the cache only by
\* the insertion of another lookup into the full cache; and the returning step,
\* KeyNotFound included, leaves the cache as it is.
C13_CachedBeforeScan == [][\A p \in Callers : C13_Step(p)]_vars

\* A lookup that fetched its chunk has returned KeyNotFound, the chunk cached.
C13_Witness ==
    \E p \in Callers :
        /\ Failed(lk[p]) /\ ~lk[p].hit /\ lk[p].fetched = "ok"
        /\ KindOf(lk[p].result[1].error) = "KeyNotFound"
        /\ CacheHas(cache, ShardKey(lk[p]))

\* The lookups running or settled and not yet taken by their caller.
Outstanding == {p \in Callers : lk[p].pc # "idle"}

C14_Guard ==
    /\ Cardinality(Outstanding) <= 1
    /\ searching = Outstanding
    /\ isSearching <=> Outstanding # {}

C14_Step ==
    /\ (requests' # requests /\ isSearching) => lk' = lk /\ started' = started
    /\ (requests' # requests /\ ~isSearching /\ started' = started) =>
          dom'.errorMessage = "Please enter a key" /\ ~isSearching'
    /\ (requests' # requests /\ ~isSearching /\ started' # started) => isSearching'
    /\ (\E p \in Callers : lk[p].pc # "idle" /\ lk'[p].pc = "idle") => ~isSearching'

\* C14: the controller has at most one lookup outstanding, and isSearching is
\* set exactly while one is: a search request made while it is set starts no
\* lookup; a request made while it is clear starts one unless the input is
\* blank; and the step that takes the lookup's result, success or failure,
\* clears it.
C14_OneSearchAtATime == []C14_Guard /\ [][C14_Step]_vars

\* A request was refused while a lookup was outstanding, and after that lookup
\* succeeded a later request has been accepted (no error was ever shown, so no
\* request was blank).
C14_Witness ==
    requests = 3 /\ started = 2 /\ isSearching /\ dom.result /\ dom.errorMessage = ""

\* C15: init() never fails on account of meta.json: when the request is
\* rejected, answered with a non-success status, or its body cannot be parsed,
\* init completes with metadata {total_chunks: 2860, total_keys: 14300247};
\* when the descriptor is served and parsed, metadata is the descriptor.
C15_InitFallsBack ==
    /\ initPc \in {"new", "awaitFetch", "awaitJson", "done"}
    /\ initPc = "done" =>
          /\ initialized
          /\ served.how \in {"status", "reject", "unparseable", "parsed"}
          /\ served.how = "parsed" => meta = served.body
          /\ served.how # "parsed" =>
                meta = <<[total_chunks |-> 2860, total_keys |-> 14300247]>>
    /\ initPc # "done" => meta = <<>> /\ ~initialized

\* init() has completed on an unparseable descriptor.
C15_Witness == initPc = "done" /\ served.how = "unparseable" /\ initialized

(***************************************************************************)
(* validateKey on its own                                                  *)
(***************************************************************************)

\* 29 hex characters of every kind.
HexMiddle == "0123456789abcdefABCDEF0123456"

\* What validateKey is called with: the empty string, and the middle with a
\* head of at most one character and a tail of at most MaxTailLen characters,
\* hex or not, which gives strings of 29 to 33 characters.
ValidateInputs ==
    {""} \cup
    {head \o HexMiddle \o tail :
        head \in {"", "0", "f", " "},
        tail \in UNION {StringsOver({"0", "F", "g", " "}, n) : n \in 0..MaxTailLen}}

\* One call of validateKey, and of normalizeKey on the same string.
Validate(raw) ==
    /\ probe = Null
    /\ probe' = Some([op |-> "validateKey", raw |-> raw, valid |-> validateKey(raw),
                      normalized |-> normalizeKey(raw)])
    /\ UNCHANGED <<meta, initialized, cache, initPc, lk, started, fresh, overlaps, fetches, known,
                   served, uiVars, mphfVars>>

ValidateNext == \E raw \in ValidateInputs : Validate(raw)

ValidateSpec == Init /\ [][ValidateNext]_vars

\* A hex digit by its character code: 0-9, A-F, a-f.
HexCode(code) == code \in (48..57) \cup (65..70) \cup (97..102)

\* C16: validateKey is true exactly for the strings of 32 characters that are
\* all hex digits of either case; so it is false for the empty string, for 31
\* or 33 hex digits, for any string with another character, white space at
\* either end or inside included, also when trimming would make the key valid.
C16_ValidateExactly32Hex ==
    (probe # Null /\ probe[1].op = "validateKey") =>
        LET raw == probe[1].raw IN
        /\ probe[1].valid <=>
              (Len(raw) = 32 /\ \A i \in 1..Len(raw) : HexCode(charCodeAt(raw, i)))
        /\ (\E i \in 1..Len(raw) : CharAt(raw, i) = " ") => ~probe[1].valid
        /\ Len(raw) \in {0, 31, 33} => ~probe[1].valid

\* validateKey has refused a key that its normalized form would pass.
C16_Witness ==
    /\ probe # Null /\ probe[1].op = "validateKey"
    /\ ~probe[1].valid
    /\ probe[1].raw = " " \o HexMiddle \o "0F0"
    /\ probe[1].normalized = "0123456789abcdefabcdef01234560f0"
    /\ validateKey(probe[1].normalized)

\* C17: a lookup given a callback that only observes calls it once for each of
\* the steps 1-5 it reaches, in step order: when it has ended at step n it has
\* emitted n distinct phase names, five when it reached the scan.
C17_PhasePerStep ==
    \A p \in Callers :
        (lk[p].cb.kind = "observer" /\ Settled(lk[p])) =>
            /\ Len(lk[p].phases) = lk[p].step
            /\ \A i, j \in 1..Len(lk[p].phases) :
                  lk[p].phases[i] = lk[p].phases[j] => i = j

\* C18: an entry is removed only by an insertion of a shard that is not cached
\* into a cache that holds maxCacheSize entries, also when two overlapping
\* lookups that missed on the same shard both insert it; so a cache that has
\* reached maxCacheSize entries keeps that many.
C18_EvictOnlyWhenFull ==
    [][/\ Len(cache) = maxCacheSize => Len(cache') = maxCacheSize
       /\ \A p \in Callers :
             (Inserts(p) /\ ~(CacheKeys(cache) \subseteq CacheKeys(cache'))) =>
                 /\ Len(cache) = maxCacheSize
                 /\ ~CacheHas(cache, ShardKey(lk'[p]))]_vars

\* C19: a lookup of a well-formed key called while this.meta is still null
\* (the engine constructed, init() not completed), with no callback or one that
\* returns, returns a failure result at once: fetch is not called and the
\* cache is unchanged.
C19_NoMetadataFails ==
    [][\A p \in Callers :
          (/\ lk[p].pc = "idle" /\ lk'[p].pc # "idle"
           /\ meta = <<>>
           /\ lk'[p].key \notin MalformedKeys
           /\ lk'[p].cb.kind \in {"none", "observer"}) =>
              /\ Failed(lk'[p])
              /\ "duration" \in DOMAIN lk'[p].result[1]
              /\ KindOf(lk'[p].result[1].error) = "UnexpectedError"
              /\ lk'[p].nfetch = 0 /\ lk'[p].url = ""
              /\ fetches' = fetches
              /\ cache' = cache]_vars

\* A lookup of a well-formed key has returned a failure, init() still awaiting
\* meta.json.
C19_Witness ==
    \E p \in Callers :
        /\ initPc = "awaitFetch" /\ meta = <<>>
        /\ Failed(lk[p]) /\ lk[p].key \notin MalformedKeys
        /\ lk[p].cb.kind = "none" /\ lk[p].step = 3

C20_Modes ==
    /\ loaded <=> loads > 0
    /\ loads > 0 =>
          /\ lastLoad.returned
          /\ lastLoad.how \in {"debug", "fallback"}
          /\ (debugMode /\ lookupTable # <<>>) <=> lastLoad.how = "debug"

C20_Lookup ==
    (probe' # probe /\ probe'[1].op = "mphf.lookup") =>
        LET key == probe'[1].key
            out == probe'[1].out
        IN  /\ out.raised <=> loads = 0
            /\ (loads > 0 /\ lastLoad.how = "debug") =>
                  out.value = IF key \in DOMAIN MphfTable
                              THEN [kind |-> "number", n |-> <<0, MphfTable[key]>>]
                              ELSE [kind |-> "undefined", n |-> <<0, 0>>]
            /\ (loads > 0 /\ lastLoad.how = "fallback") =>
                  /\ out.value.kind = "number"
                  /\ out.value.n = simpleHash(key)

\* C20: mphf.lookup(key) throws exactly when no load() has returned; every
\* load() that returns returns true and leaves the evaluator in one mode: with
\* the mapping (lookup gives the mapping's entry for the key, undefined for a
\* key not in it) when mphf_debug.json came with a success status and parsed,
\* else without it (lookup gives a non-negative integer that is a function of
\* the key).
C20_MphfLoadModes == []C20_Modes /\ [][C20_Lookup]_vars
=============================================================================
